---- MODULE Spec2Model ----
(***************************************************************************)
(* Model of systeccan.py: the return-code taxonomy (check_* functions and  *)
(* check_result) and the USBCanServer device session (construction,        *)
(* init_hardware, init_can, get_status, shutdown) on top of the native     *)
(* USBCAN library, whose return codes are inputs of the model.             *)
(***************************************************************************)
EXTENDS Integers, Sequences, FiniteSets, TLC

VARIABLES
    sessions,              \* the USBCanServer instances of the process, in construction order
    cls_connect_control_ref, \* the class attribute USBCanServer._connect_control_ref
    calls,                 \* the native calls issued by the most recent operation, in order
    last,                  \* the most recent operation: its name, arguments and outcome
    nRegister,             \* history: number of UcanInitHwConnectControlEx calls so far
    live,                  \* history: per session, the channels natively initialized and not deinitialized since
    rc,                    \* a return code handed to the classification functions
    verdict,               \* what the classification functions / check_result produced for rc
    input                  \* the arguments handed to a class-level helper, verdict is its result

vars == <<sessions, cls_connect_control_ref, calls, last, nRegister, live, rc, verdict, input>>

sessionVars == <<sessions, cls_connect_control_ref, calls, last, nRegister, live>>
codeVars == <<rc, verdict, input>>

(***************************************************************************)
(* Bounds of the model.                                                    *)
(***************************************************************************)
MaxSessions == 2
MaxConstruct == 3
MaxHandle == 0

(***************************************************************************)
(* Program constants.                                                      *)
(***************************************************************************)
INVALID_HANDLE == 255
CHANNEL_CH0 == 0
CHANNEL_CH1 == 1
CHANNEL_ALL == 254
CHANNEL_ANY == 255

SUCCESSFUL == 0
ERR == 1
ERRCMD == 64
WARNING == 128
ERR_ILLHANDLE == 6
ERRCMD_NOTINIT == 72
WARN_NODATA == 128
WARN_TXLIMIT == 145
MaxByte == 255

\* ReturnCode is a BYTE: every value a native call can return.
ReturnCodes == 0..MaxByte

(***************************************************************************)
(* Return-code classification (pure functions).                            *)
(***************************************************************************)
check_valid_rx_can_msg(result) == (result = SUCCESSFUL) \/ (result > WARNING)

\* Variant of check_tx_ok that also accepts the threshold code WARN_NODATA.
check_tx_ok_FromThreshold(result) == (result = SUCCESSFUL) \/ (result >= WARNING)

check_tx_ok(result) == (result = SUCCESSFUL) \/ (result > WARNING)

check_tx_success(result) == result = SUCCESSFUL

\* Variant of check_tx_not_all that compares with the start of the warning band.
check_tx_not_all_Warning(result) == result = WARNING

check_tx_not_all(result) == result = WARN_TXLIMIT

\* Variant of check_warning with a strict comparison.
check_warning_AboveThreshold(result) == result > WARNING

check_warning(result) == result >= WARNING

\* Variant of check_error that stops below the command-error band.
check_error_BelowCmd(result) == (result # SUCCESSFUL) /\ (result < ERRCMD)

check_error(result) == (result # SUCCESSFUL) /\ (result < WARNING)

\* Variants of check_error_cmd: without the upper bound of the band, and with
\* the band starting at ERR instead of ERRCMD.
check_error_cmd_NoUpperBound(result) == result >= ERRCMD

check_error_cmd_FromErr(result) == (result >= ERR) /\ (result < WARNING)

check_error_cmd(result) == (result >= ERRCMD) /\ (result < WARNING)

\* USBCanException.__init__: the exception keeps the raw code, the function and the arguments.
USBCanException(cls, result, func, arguments) ==
    [cls |-> cls, result |-> result, func |-> func, arguments |-> arguments]

\* check_result: the errcheck hook of every native call.  The outcome is either
\* a raised exception or the returned result, with the warnings logged on the way.
check_result(result, func, arguments) ==
    IF check_warning(result)
    THEN [kind |-> "return", value |-> result,
          logged |-> <<USBCanException("USBCanWarning", result, func, arguments)>>,
          exc |-> <<>>]
    ELSE IF check_error(result)
    THEN IF check_error_cmd(result)
         THEN [kind |-> "raise", value |-> result, logged |-> <<>>,
               exc |-> <<USBCanException("USBCanCmdError", result, func, arguments)>>]
         ELSE [kind |-> "raise", value |-> result, logged |-> <<>>,
               exc |-> <<USBCanException("USBCanError", result, func, arguments)>>]
    ELSE [kind |-> "return", value |-> result, logged |-> <<>>, exc |-> <<>>]

\* Every classification predicate applied to one return code.
Classification(result) ==
    [of |-> "classification",
     valid_rx_can_msg |-> check_valid_rx_can_msg(result),
     tx_ok |-> check_tx_ok(result),
     tx_success |-> check_tx_success(result),
     tx_not_all |-> check_tx_not_all(result),
     warning |-> check_warning(result),
     error |-> check_error(result),
     error_cmd |-> check_error_cmd(result)]

NoVerdict == [of |-> "none"]

\* No helper is being called.
NoInput == [of |-> "none"]

(***************************************************************************)
(* The native library.  A native call is recorded with its function, its   *)
(* arguments (the handle first, where it takes one) and the code returned.  *)
(* The returned code is an input of the model: the wrapper has to cope     *)
(* with every code of the three bands.                                     *)
(***************************************************************************)
NativeRetCodes == {SUCCESSFUL, ERR_ILLHANDLE, ERRCMD_NOTINIT, WARN_NODATA}

ValidHandles == 0..MaxHandle

NativeCall(fn, args, ret) == [fn |-> fn, args |-> args, ret |-> ret]

\* The errcheck outcome of a recorded native call.
Checked(call) == check_result(call.ret, call.fn, call.args)

Raised(call) == Checked(call).kind = "raise"

ExcClass(call) == IF Raised(call) THEN Checked(call).exc[1].cls ELSE "none"

\* The handle values UcanInitHardwareEx/Ex2 can leave behind its Handle* out
\* parameter: a valid handle when the function was executed (success or
\* warning), the previous value or the invalid handle when it failed.
NativeHandleOut(ret, old) ==
    IF check_error(ret) THEN {old, INVALID_HANDLE} ELSE ValidHandles

(***************************************************************************)
(* USBCanServer: the per-channel dictionary _ch_is_initialized is kept as  *)
(* its keys in insertion order (ch_keys) and the flag of each key.         *)
(***************************************************************************)
NewSession(ref) ==
    [handle |-> INVALID_HANDLE,
     is_initialized |-> FALSE,
     hw_is_initialized |-> FALSE,
     ch_keys |-> <<CHANNEL_CH0, CHANNEL_CH1>>,
     ch_is_initialized |-> [c \in {CHANNEL_CH0, CHANNEL_CH1} |-> FALSE],
     connect_control_ref |-> ref]

\* The property is_initialized.
is_initialized(sess) == sess.is_initialized

\* dict.get(channel, False)
ChGet(sess, channel) ==
    IF channel \in DOMAIN sess.ch_is_initialized
    THEN sess.ch_is_initialized[channel]
    ELSE FALSE

\* self._ch_is_initialized[channel] = value
ChSet(sess, channel, value) ==
    [sess EXCEPT
        !.ch_keys = IF channel \in DOMAIN sess.ch_is_initialized
                    THEN @ ELSE Append(@, channel),
        !.ch_is_initialized =
            [k \in (DOMAIN @) \cup {channel} |-> IF k = channel THEN value ELSE @[k]]]

\* History of the native channel calls of one session: a channel is open from
\* a native channel init that did not fail until the next native channel
\* deinit call.
NoHistory == {}

RECURSIVE LiveAfter(_, _)
LiveAfter(lv, cs) ==
    IF cs = <<>> THEN lv
    ELSE LET c == Head(cs) IN
         LiveAfter(
            IF c.fn = "UcanInitCanEx2" /\ ~Raised(c) THEN lv \cup {c.args[2]}
            ELSE IF c.fn = "UcanDeinitCanEx" THEN lv \ {c.args[2]}
            ELSE lv,
            Tail(cs))

\* The record of an operation: the method, the session, the arguments, the
\* exception class it raised ("none" when it returned), and whether it repeats
\* the operation before it (same method, session and arguments, which returned).
Op(name, s, args, raised) ==
    [op |-> name, s |-> s, args |-> args, raised |-> raised,
     repeat |-> /\ last.op = name /\ last.s = s /\ last.args = args
                /\ last.raised = "none"]

NoOp == [op |-> "none", s |-> 0, args |-> <<>>, raised |-> "none", repeat |-> FALSE]

\* What every session method leaves behind: the new session record, the
\* native calls it issued and the exception class it raised, if any.
Finish(name, s, args, sess, cs, raised) ==
    /\ sessions' = [sessions EXCEPT ![s] = sess]
    /\ calls' = cs
    /\ last' = Op(name, s, args, raised)
    /\ live' = [live EXCEPT ![s] = LiveAfter(@, cs)]
    /\ UNCHANGED <<cls_connect_control_ref, nRegister, codeVars>>

(***************************************************************************)
(* USBCanServer.__init__                                                   *)
(***************************************************************************)
\* "self._connect_control_ref is None" reads the class attribute, because the
\* new instance has no attribute of that name yet.
ConnectControlUnset == cls_connect_control_ref = "None"

\* "self._connect_control_ref = ..." binds an attribute of the instance; the
\* class attribute keeps its value.
ClsRefAfterInstall == cls_connect_control_ref

Construct(ret) ==
    /\ Len(sessions) < MaxSessions
    /\ nRegister < MaxConstruct
    /\ IF ConnectControlUnset
       THEN LET call == NativeCall("UcanInitHwConnectControlEx", <<>>, ret) IN
            /\ calls' = <<call>>
            /\ nRegister' = nRegister + 1
            /\ cls_connect_control_ref' = ClsRefAfterInstall
            /\ last' = Op("__init__", Len(sessions) + 1, <<>>, ExcClass(call))
            /\ IF Raised(call)
               THEN UNCHANGED <<sessions, live>>
               ELSE /\ sessions' = Append(sessions, NewSession("ref"))
                    /\ live' = Append(live, NoHistory)
       ELSE /\ calls' = <<>>
            /\ last' = Op("__init__", Len(sessions) + 1, <<>>, "none")
            /\ sessions' = Append(sessions, NewSession("class"))
            /\ live' = Append(live, NoHistory)
            /\ UNCHANGED <<nRegister, cls_connect_control_ref>>
    /\ UNCHANGED codeVars

(***************************************************************************)
(* USBCanServer.init_hardware                                              *)
(***************************************************************************)
\* Variant of the init_hardware guard that ignores the hardware flag.
InitHardwareGuard_Always(sess) == TRUE

InitHardwareGuard(sess) == ~sess.hw_is_initialized

InitHardwareFn(serial) ==
    IF serial = "None" THEN "UcanInitHardwareEx" ELSE "UcanInitHardwareEx2"

\* The session after the native hardware init returned without raising.
InitHardwareDone(sess, h) ==
    [sess EXCEPT !.handle = h, !.hw_is_initialized = TRUE]

InitHardware(s, serial, ret, h) ==
    LET sess == sessions[s] IN
    IF InitHardwareGuard(sess)
    THEN LET call == NativeCall(InitHardwareFn(serial), <<sess.handle>>, ret) IN
         /\ h \in NativeHandleOut(ret, sess.handle)
         /\ Finish("init_hardware", s, <<serial>>,
                   IF Raised(call) THEN [sess EXCEPT !.handle = h]
                   ELSE InitHardwareDone(sess, h),
                   <<call>>, ExcClass(call))
    ELSE /\ h = sess.handle
         /\ Finish("init_hardware", s, <<serial>>, sess, <<>>, "none")

(***************************************************************************)
(* USBCanServer.init_can                                                   *)
(***************************************************************************)
\* Variant of the init_can guard that ignores the channel flag.
InitCanGuard_Always(sess, channel) == TRUE

InitCanGuard(sess, channel) == ~ChGet(sess, channel)

InitCan(s, channel, ret) ==
    LET sess == sessions[s] IN
    IF InitCanGuard(sess, channel)
    THEN LET call == NativeCall("UcanInitCanEx2", <<sess.handle, channel>>, ret) IN
         Finish("init_can", s, <<channel>>,
                IF Raised(call) THEN sess ELSE ChSet(sess, channel, TRUE),
                <<call>>, ExcClass(call))
    ELSE Finish("init_can", s, <<channel>>, sess, <<>>, "none")

(***************************************************************************)
(* USBCanServer.get_status: a pass-through call                            *)
(***************************************************************************)
GetStatus(s, channel, ret) ==
    LET sess == sessions[s]
        call == NativeCall("UcanGetStatusEx", <<sess.handle, channel>>, ret) IN
    Finish("get_status", s, <<channel>>, sess, <<call>>, ExcClass(call))

(***************************************************************************)
(* USBCanServer.shutdown                                                   *)
(***************************************************************************)
\* Variants of the loop condition: one that looks at the target channel only,
\* one that takes every initialized channel.
ShutdownSelects_TargetOnly(sess, key, channel, shutdown_hardware) ==
    /\ sess.ch_is_initialized[key]
    /\ key = channel

ShutdownSelects_AnyChannel(sess, key, channel, shutdown_hardware) ==
    sess.ch_is_initialized[key]

\* The condition under which the loop deinitializes the channel _channel.
ShutdownSelects(sess, key, channel, shutdown_hardware) ==
    /\ sess.ch_is_initialized[key]
    /\ (key = channel \/ channel = CHANNEL_ALL \/ shutdown_hardware)

\* The loop over self._ch_is_initialized.items(): rets[i] is the code the
\* i-th native call of this shutdown returns.  A raising call ends the method.
\* The code the i-th native call of a shutdown returns.
RetAt(rets, i) == IF i \in DOMAIN rets THEN rets[i] ELSE SUCCESSFUL

RECURSIVE ShutdownChannels(_, _, _, _, _, _)
ShutdownChannels(sess, keys, channel, shutdown_hardware, rets, cs) ==
    IF keys = <<>>
    THEN [sess |-> sess, calls |-> cs, raised |-> "none"]
    ELSE LET key == Head(keys) IN
         IF ShutdownSelects(sess, key, channel, shutdown_hardware)
         THEN LET call == NativeCall("UcanDeinitCanEx", <<sess.handle, key>>,
                                     RetAt(rets, Len(cs) + 1)) IN
              IF Raised(call)
              THEN [sess |-> sess, calls |-> Append(cs, call), raised |-> ExcClass(call)]
              ELSE ShutdownChannels(ChSet(sess, key, FALSE), Tail(keys), channel,
                                    shutdown_hardware, rets, Append(cs, call))
         ELSE ShutdownChannels(sess, Tail(keys), channel, shutdown_hardware, rets, cs)

\* Variants of the hardware shutdown that forget one of its two assignments.
ShutdownHardwareDone_KeepFlag(sess) == [sess EXCEPT !.handle = INVALID_HANDLE]

ShutdownHardwareDone_KeepHandle(sess) == [sess EXCEPT !.hw_is_initialized = FALSE]

\* The session after UcanDeinitHardware returned without raising.
ShutdownHardwareDone(sess) ==
    [sess EXCEPT !.hw_is_initialized = FALSE, !.handle = INVALID_HANDLE]

ShutdownHardware(r, shutdown_hardware, rets) ==
    IF r.raised = "none" /\ r.sess.hw_is_initialized /\ shutdown_hardware
    THEN LET call == NativeCall("UcanDeinitHardware", <<r.sess.handle>>,
                                RetAt(rets, Len(r.calls) + 1)) IN
         [sess |-> IF Raised(call) THEN r.sess ELSE ShutdownHardwareDone(r.sess),
          calls |-> Append(r.calls, call),
          raised |-> ExcClass(call)]
    ELSE r

Shutdown(s, channel, shutdown_hardware, rets) ==
    LET sess == sessions[s]
        r == ShutdownHardware(
                ShutdownChannels(sess, sess.ch_keys, channel, shutdown_hardware, rets, <<>>),
                shutdown_hardware, rets) IN
    /\ Len(r.calls) = Len(rets)
    /\ Finish("shutdown", s, <<channel, shutdown_hardware>>, r.sess, r.calls, r.raised)

(***************************************************************************)
(* USBCanServer.read_can_msg and write_can_msg: bulk transfer through a    *)
(* caller-sized array and an in/out count.  A transfer call is recorded    *)
(* with what the native side wrote back through its pointer parameters.    *)
(***************************************************************************)
MaxCount == 2

NativeTransfer(fn, args, ret, out) == [fn |-> fn, args |-> args, ret |-> ret, out |-> out]

\* The record of a method that hands a value back: result is <<>> when it raised.
OpResult(name, s, args, raised, result) ==
    [op |-> name, s |-> s, args |-> args, raised |-> raised,
     repeat |-> /\ last.op = name /\ last.s = s /\ last.args = args
                /\ last.raised = "none",
     result |-> result]

FinishResult(name, s, args, sess, cs, raised, result) ==
    /\ sessions' = [sessions EXCEPT ![s] = sess]
    /\ calls' = cs
    /\ last' = OpResult(name, s, args, raised, result)
    /\ live' = [live EXCEPT ![s] = LiveAfter(@, cs)]
    /\ UNCHANGED <<cls_connect_control_ref, nRegister, codeVars>>

\* Variant of the slice that hands back the whole array.
SliceWhole(seq, n) == seq

\* seq[:n]
Slice(seq, n) == SubSeq(seq, 1, IF n < Len(seq) THEN n ELSE Len(seq))

\* (CanMsg * count)(): count zero-initialized message structures.
CanMsgArray(count) == [i \in 1..count |-> "CanMsg()"]

\* The array after the native read stored n messages into it.
NativeFilled(array, n) == [i \in DOMAIN array |-> IF i <= n THEN "received" ELSE array[i]]

\* UcanReadCanMsgEx (pdwCount_p in/out): the native side may shrink the count
\* to the number of messages actually transferred; a failed call leaves it.
NativeReadCountOut(ret, count) == IF check_error(ret) THEN {count} ELSE 0..count

\* UcanReadCanMsgEx (pbChannel_p in/out): the channel the messages came from.
NativeReadChannelOut(ret, channel) ==
    IF check_error(ret) \/ channel # CHANNEL_ANY THEN {channel}
    ELSE {CHANNEL_CH0, CHANNEL_CH1}

\* UcanWriteCanMsgEx (pdwCount_p in/out): WARN_TXLIMIT reports that not all
\* messages could be stored, the count then tells how many were.
NativeWriteCountOut(ret, count) ==
    IF ret = WARN_TXLIMIT THEN 0..(count - 1) ELSE {count}

ReadCanMsg(s, channel, count, ret, count_out, channel_out) ==
    LET sess == sessions[s]
        c_channel == channel_out
        c_can_msg == NativeFilled(CanMsgArray(count), count_out)
        c_count == count_out
        call == NativeTransfer("UcanReadCanMsgEx", <<sess.handle, channel, count>>, ret,
                               [count |-> count_out, channel |-> channel_out]) IN
    /\ count_out \in NativeReadCountOut(ret, count)
    /\ channel_out \in NativeReadChannelOut(ret, channel)
    /\ FinishResult("read_can_msg", s, <<channel, count>>, sess, <<call>>, ExcClass(call),
                    IF Raised(call) THEN <<>> ELSE <<Slice(c_can_msg, c_count), c_channel>>)

WriteCanMsg(s, channel, can_msg, ret, count_out) ==
    LET sess == sessions[s]
        c_count == count_out
        call == NativeTransfer("UcanWriteCanMsgEx", <<sess.handle, channel, Len(can_msg)>>, ret,
                               [count |-> count_out]) IN
    /\ count_out \in NativeWriteCountOut(ret, Len(can_msg))
    /\ FinishResult("write_can_msg", s, <<channel, can_msg>>, sess, <<call>>, ExcClass(call),
                    IF Raised(call) THEN <<>> ELSE <<c_count>>)

(***************************************************************************)
(* The callbacks the native library invokes: each dispatches on the event  *)
(* code to the hook methods, which do nothing unless a subclass overrides  *)
(* them.  A callback is recorded with the hooks it invoked, in order.      *)
(***************************************************************************)
EVENT_INITHW == 0
EVENT_init_can == 1
EVENT_RECEIVE == 2
EVENT_STATUS == 3
EVENT_DEINIT_CAN == 4
EVENT_DEINITHW == 5
EVENT_CONNECT == 6
EVENT_DISCONNECT == 7
EVENT_FATALDISCON == 8
EVENT_RESERVED1 == 128

\* A call of the hook method name with the given arguments.
Hook(name, args) == [name |-> name, args |-> args]

\* Variant of _connect_control that drops the parameter of the fatal disconnect.
_connect_control_NoParam(event, param, arg) ==
    IF event = EVENT_FATALDISCON THEN <<Hook("fatal_disconnect_event", <<>>)>>
    ELSE IF event = EVENT_CONNECT THEN <<Hook("connect_event", <<>>)>>
    ELSE IF event = EVENT_DISCONNECT THEN <<Hook("disconnect_event", <<>>)>>
    ELSE <<>>

_connect_control(event, param, arg) ==
    IF event = EVENT_FATALDISCON THEN <<Hook("fatal_disconnect_event", <<param>>)>>
    ELSE IF event = EVENT_CONNECT THEN <<Hook("connect_event", <<>>)>>
    ELSE IF event = EVENT_DISCONNECT THEN <<Hook("disconnect_event", <<>>)>>
    ELSE <<>>

_callback(handle, event, channel, arg) ==
    IF event = EVENT_INITHW THEN <<Hook("init_hw_event", <<>>)>>
    ELSE IF event = EVENT_init_can THEN <<Hook("init_can_event", <<channel>>)>>
    ELSE IF event = EVENT_RECEIVE THEN <<Hook("can_msg_received_event", <<channel>>)>>
    ELSE IF event = EVENT_STATUS THEN <<Hook("status_event", <<channel>>)>>
    ELSE IF event = EVENT_DEINIT_CAN THEN <<Hook("deinit_can_event", <<channel>>)>>
    ELSE IF event = EVENT_DEINITHW THEN <<Hook("deinit_hw_event", <<>>)>>
    ELSE <<>>

\* Variant of the hooks in which a hook of the deinit events clears the hardware flag.
RunHooks_ClearOnDeinit(sess, hooks) ==
    IF \E i \in DOMAIN hooks : hooks[i].name = "deinit_hw_event"
    THEN [sess EXCEPT !.hw_is_initialized = FALSE]
    ELSE sess

\* The hook methods of the class: every body is "pass".
RunHooks(sess, hooks) == sess

\* The library delivers a connect-control event to the session s.
ConnectControl(s, event, param) ==
    LET hooks == _connect_control(event, param, "None") IN
    FinishResult("_connect_control", s, <<event, param>>, RunHooks(sessions[s], hooks),
                 <<>>, "none", hooks)

\* The library delivers a working event of the module of session s.
Callback(s, event, channel) ==
    LET hooks == _callback(sessions[s].handle, event, channel, "None") IN
    FinishResult("_callback", s, <<sessions[s].handle, event, channel>>,
                 RunHooks(sessions[s], hooks), <<>>, "none", hooks)

(***************************************************************************)
(* The process: sessions are constructed and used in any order.            *)
(***************************************************************************)
\* The two channels of a module.
Channels01 == {CHANNEL_CH0, CHANNEL_CH1}

ChannelArgs == {CHANNEL_CH0, CHANNEL_CH1, CHANNEL_ALL}

SerialArgs == {"None", "serial"}

OkRetCodes == {r \in NativeRetCodes : check_result(r, "", <<>>).kind = "return"}

BadRetCodes == NativeRetCodes \ OkRetCodes

\* The calls a shutdown with these arguments issues when none of them raises.
ShutdownCallCount(sess, channel, shutdown_hardware) ==
    Cardinality({k \in DOMAIN sess.ch_is_initialized :
                    ShutdownSelects(sess, k, channel, shutdown_hardware)})
    + (IF sess.hw_is_initialized /\ shutdown_hardware THEN 1 ELSE 0)

\* The codes the native calls of one shutdown return, in call order: either
\* none of its n calls raises, or one does and no further call is issued.
ShutdownRets(n) ==
    [1..n -> OkRetCodes]
    \cup UNION {{Append(pre, bad) : pre \in [1..k -> OkRetCodes], bad \in BadRetCodes} :
                k \in 0..(n - 1)}

\* An empty process: the class is loaded, no session constructed yet.
InitProcess ==
    /\ sessions = <<>>
    /\ cls_connect_control_ref = "None"
    /\ calls = <<>>
    /\ last = NoOp
    /\ nRegister = 0
    /\ live = <<>>
    /\ rc = 0
    /\ verdict = NoVerdict
    /\ input = NoInput

\* One session, right after its construction.
Init ==
    \E ret \in OkRetCodes :
        /\ sessions = <<NewSession("ref")>>
        /\ cls_connect_control_ref = "None"
        /\ calls = <<NativeCall("UcanInitHwConnectControlEx", <<>>, ret)>>
        /\ last = [NoOp EXCEPT !.op = "__init__", !.s = 1]
        /\ nRegister = 1
        /\ live = <<NoHistory>>
        /\ rc = 0
        /\ verdict = NoVerdict
        /\ input = NoInput

NextConstruct == \E ret \in NativeRetCodes : Construct(ret)

NextSession ==
    \/ \E s \in DOMAIN sessions, serial \in SerialArgs, ret \in NativeRetCodes,
          h \in ValidHandles \cup {INVALID_HANDLE} : InitHardware(s, serial, ret, h)
    \/ \E s \in DOMAIN sessions, channel \in ChannelArgs, ret \in NativeRetCodes :
          InitCan(s, channel, ret)
    \/ \E s \in DOMAIN sessions, channel \in ChannelArgs, ret \in NativeRetCodes :
          GetStatus(s, channel, ret)
    \/ \E s \in DOMAIN sessions, channel \in ChannelArgs, shutdown_hardware \in BOOLEAN :
          \E rets \in ShutdownRets(ShutdownCallCount(sessions[s], channel, shutdown_hardware)) :
              Shutdown(s, channel, shutdown_hardware, rets)

\* The methods of one constructed session, called in any order.
Spec == Init /\ [][NextSession]_vars

\* A process that constructs sessions and brings their hardware up and down.
NextProcess ==
    \/ NextConstruct
    \/ \E s \in DOMAIN sessions, serial \in SerialArgs, ret \in NativeRetCodes,
          h \in ValidHandles \cup {INVALID_HANDLE} : InitHardware(s, serial, ret, h)
    \/ \E s \in DOMAIN sessions :
          \E rets \in ShutdownRets(ShutdownCallCount(sessions[s], CHANNEL_ALL, TRUE)) :
              Shutdown(s, CHANNEL_ALL, TRUE, rets)

SpecProcess == InitProcess /\ [][NextProcess]_vars

(***************************************************************************)
(* One session that is brought up and then reads and writes messages.      *)
(***************************************************************************)
ReadChannelArgs == {CHANNEL_CH0, CHANNEL_ANY}

WriteChannelArgs == {CHANNEL_CH0, CHANNEL_CH1}

WriteRetCodes == NativeRetCodes \cup {WARN_TXLIMIT}

\* Lists of up to MaxCount messages to send.
CanMsgLists == UNION {[1..n -> {"CanMsg"}] : n \in 0..MaxCount}

NextTransfer ==
    \/ \E s \in DOMAIN sessions, serial \in SerialArgs, ret \in NativeRetCodes,
          h \in ValidHandles \cup {INVALID_HANDLE} : InitHardware(s, serial, ret, h)
    \/ \E s \in DOMAIN sessions, channel \in ChannelArgs, ret \in NativeRetCodes :
          InitCan(s, channel, ret)
    \/ \E s \in DOMAIN sessions, channel \in ReadChannelArgs, count \in 0..MaxCount,
          ret \in NativeRetCodes, count_out \in 0..MaxCount,
          channel_out \in {CHANNEL_CH0, CHANNEL_CH1, CHANNEL_ANY} :
          ReadCanMsg(s, channel, count, ret, count_out, channel_out)
    \/ \E s \in DOMAIN sessions, channel \in WriteChannelArgs, can_msg \in CanMsgLists,
          ret \in WriteRetCodes, count_out \in 0..MaxCount :
          WriteCanMsg(s, channel, can_msg, ret, count_out)

SpecTransfer == Init /\ [][NextTransfer]_vars

(***************************************************************************)
(* One session that is brought up while the library delivers events.       *)
(***************************************************************************)
MaxEvent == 9

\* The event codes delivered: the defined ones, the next free ones, the reserved one.
EventArgs == 0..MaxEvent \cup {EVENT_RESERVED1}

\* The parameter of a connect-control event: 0 or the handle of the module lost.
ParamArgs == {0, 1}

NextEvents ==
    \/ \E s \in DOMAIN sessions, serial \in SerialArgs, ret \in NativeRetCodes,
          h \in ValidHandles \cup {INVALID_HANDLE} : InitHardware(s, serial, ret, h)
    \/ \E s \in DOMAIN sessions, channel \in Channels01, ret \in NativeRetCodes :
          InitCan(s, channel, ret)
    \/ \E s \in DOMAIN sessions, event \in EventArgs, param \in ParamArgs :
          ConnectControl(s, event, param)
    \/ \E s \in DOMAIN sessions, event \in EventArgs, channel \in Channels01 :
          Callback(s, event, channel)
    \/ \E s \in DOMAIN sessions, channel \in ChannelArgs, shutdown_hardware \in BOOLEAN :
          \E rets \in ShutdownRets(ShutdownCallCount(sessions[s], channel, shutdown_hardware)) :
              Shutdown(s, channel, shutdown_hardware, rets)

SpecEvents == Init /\ [][NextEvents]_vars

(***************************************************************************)
(* The return-code taxonomy on its own: every code a BYTE can hold is run  *)
(* through the classification predicates and through check_result.         *)
(***************************************************************************)
FuncArgs == {"UcanInitCanEx2", "UcanReadCanMsgEx"}

ArgumentArgs == {<<INVALID_HANDLE>>, <<0, CHANNEL_CH1>>}

InitCodes ==
    /\ rc \in ReturnCodes
    /\ verdict = NoVerdict
    /\ input = NoInput
    /\ sessions = <<>>
    /\ cls_connect_control_ref = "None"
    /\ calls = <<>>
    /\ last = NoOp
    /\ nRegister = 0
    /\ live = <<>>

Classify ==
    /\ verdict' = Classification(rc)
    /\ UNCHANGED <<rc, input, sessionVars>>

CheckResult(func, arguments) ==
    /\ verdict' = [of |-> "check_result", func |-> func, arguments |-> arguments,
                   out |-> check_result(rc, func, arguments)]
    /\ UNCHANGED <<rc, input, sessionVars>>

NextCodes ==
    \/ Classify
    \/ \E func \in FuncArgs, arguments \in ArgumentArgs : CheckResult(func, arguments)

SpecCodes == InitCodes /\ [][NextCodes]_vars

(***************************************************************************)
(* The class-level helpers: flag constants and pure class methods.  A      *)
(* Python int is modelled as the set of positions of its one-bits, so the  *)
(* bitwise operators are computed as the interpreter computes them, on     *)
(* values of any width.                                                    *)
(***************************************************************************)
\* The int written as the literal n.
Word(n) == {i \in 0..30 : (n \div (2 ^ i)) % 2 = 1}

RECURSIVE Val(_)
\* The number a (short) int stands for.
Val(w) == IF w = {} THEN 0
          ELSE LET i == CHOOSE j \in w : TRUE IN (2 ^ i) + Val(w \ {i})

BitOr(a, b) == a \cup b

BitAnd(a, b) == a \cap b

BitXor(a, b) == (a \ b) \cup (b \ a)

ShiftLeft(a, n) == {i + n : i \in a}

ShiftRight(a, n) == {i - n : i \in {j \in a : j >= n}}

\* class ResetFlags
RESET_ALL == Word(0)
RESET_NO_STATUS == Word(1)
RESET_NO_CANCTRL == Word(2)
RESET_NO_TXCOUNTER == Word(4)
RESET_NO_RXCOUNTER == Word(8)
RESET_NO_TXBUFFER_CH == Word(16)
RESET_NO_TXBUFFER_DLL == Word(32)
RESET_NO_TXBUFFER_FW == Word(128)
RESET_NO_RXBUFFER_CH == Word(256)
RESET_NO_RXBUFFER_DLL == Word(512)
RESET_NO_RXBUFFER_SYS == Word(1024)
RESET_NO_RXBUFFER_FW == Word(2048)
RESET_FIRMWARE == 0..31
RESET_NO_COUNTER_ALL == BitOr(RESET_NO_TXCOUNTER, RESET_NO_RXCOUNTER)
RESET_NO_TXBUFFER_COMM == BitOr(BitOr(RESET_NO_TXBUFFER_DLL, Word(64)), RESET_NO_TXBUFFER_FW)
RESET_NO_RXBUFFER_COMM == BitOr(BitOr(RESET_NO_RXBUFFER_DLL, RESET_NO_RXBUFFER_SYS), RESET_NO_RXBUFFER_FW)
RESET_NO_TXBUFFER_ALL == BitOr(RESET_NO_TXBUFFER_CH, RESET_NO_TXBUFFER_COMM)
RESET_NO_RXBUFFER_ALL == BitOr(RESET_NO_RXBUFFER_CH, RESET_NO_RXBUFFER_COMM)
RESET_NO_BUFFER_COMM == BitOr(RESET_NO_TXBUFFER_COMM, RESET_NO_RXBUFFER_COMM)
RESET_NO_BUFFER_ALL == BitOr(RESET_NO_TXBUFFER_ALL, RESET_NO_RXBUFFER_ALL)

\* The attributes of class ResetFlags, by name.
ResetFlags ==
    [RESET_ALL |-> RESET_ALL,
     RESET_NO_STATUS |-> RESET_NO_STATUS,
     RESET_NO_CANCTRL |-> RESET_NO_CANCTRL,
     RESET_NO_TXCOUNTER |-> RESET_NO_TXCOUNTER,
     RESET_NO_RXCOUNTER |-> RESET_NO_RXCOUNTER,
     RESET_NO_TXBUFFER_CH |-> RESET_NO_TXBUFFER_CH,
     RESET_NO_TXBUFFER_DLL |-> RESET_NO_TXBUFFER_DLL,
     RESET_NO_TXBUFFER_FW |-> RESET_NO_TXBUFFER_FW,
     RESET_NO_RXBUFFER_CH |-> RESET_NO_RXBUFFER_CH,
     RESET_NO_RXBUFFER_DLL |-> RESET_NO_RXBUFFER_DLL,
     RESET_NO_RXBUFFER_SYS |-> RESET_NO_RXBUFFER_SYS,
     RESET_NO_RXBUFFER_FW |-> RESET_NO_RXBUFFER_FW,
     RESET_FIRMWARE |-> RESET_FIRMWARE,
     RESET_NO_COUNTER_ALL |-> RESET_NO_COUNTER_ALL,
     RESET_NO_TXBUFFER_COMM |-> RESET_NO_TXBUFFER_COMM,
     RESET_NO_RXBUFFER_COMM |-> RESET_NO_RXBUFFER_COMM,
     RESET_NO_TXBUFFER_ALL |-> RESET_NO_TXBUFFER_ALL,
     RESET_NO_RXBUFFER_ALL |-> RESET_NO_RXBUFFER_ALL,
     RESET_NO_BUFFER_COMM |-> RESET_NO_BUFFER_COMM,
     RESET_NO_BUFFER_ALL |-> RESET_NO_BUFFER_ALL]

\* class PendingFlags
PENDING_FLAG_RX_DLL == Word(1)
PENDING_FLAG_RX_SYS == Word(2)
PENDING_FLAG_RX_FW == Word(4)
PENDING_FLAG_TX_DLL == Word(16)
PENDING_FLAG_TX_SYS == Word(32)
PENDING_FLAG_TX_FW == Word(64)
PENDING_FLAG_RX_ALL == BitOr(BitOr(PENDING_FLAG_RX_DLL, PENDING_FLAG_RX_SYS), PENDING_FLAG_RX_FW)
PENDING_FLAG_TX_ALL == BitOr(BitOr(PENDING_FLAG_TX_DLL, PENDING_FLAG_TX_SYS), PENDING_FLAG_TX_FW)
PENDING_FLAG_ALL == BitOr(PENDING_FLAG_RX_ALL, PENDING_FLAG_TX_ALL)

\* The attributes of class PendingFlags, by name.
PendingFlags ==
    [PENDING_FLAG_RX_DLL |-> PENDING_FLAG_RX_DLL,
     PENDING_FLAG_RX_SYS |-> PENDING_FLAG_RX_SYS,
     PENDING_FLAG_RX_FW |-> PENDING_FLAG_RX_FW,
     PENDING_FLAG_TX_DLL |-> PENDING_FLAG_TX_DLL,
     PENDING_FLAG_TX_SYS |-> PENDING_FLAG_TX_SYS,
     PENDING_FLAG_TX_FW |-> PENDING_FLAG_TX_FW,
     PENDING_FLAG_RX_ALL |-> PENDING_FLAG_RX_ALL,
     PENDING_FLAG_TX_ALL |-> PENDING_FLAG_TX_ALL,
     PENDING_FLAG_ALL |-> PENDING_FLAG_ALL]

FlagClass(cls) == IF cls = "ResetFlags" THEN ResetFlags ELSE PendingFlags

\* The attribute reads a caller can make on the two flag classes.
FlagArgs ==
    {[of |-> "flag", cls |-> "ResetFlags", name |-> n] : n \in DOMAIN ResetFlags}
    \cup {[of |-> "flag", cls |-> "PendingFlags", name |-> n] : n \in DOMAIN PendingFlags}

\* Reading the attribute input.name of the class input.cls.
ReadFlag ==
    /\ input.of = "flag"
    /\ verdict = NoVerdict
    /\ verdict' = [of |-> "flag", value |-> FlagClass(input.cls)[input.name]]
    /\ UNCHANGED <<rc, input, sessionVars>>

\* Variant of calculate_acr that always uses the 29-bit layout.
calculate_acr_ExtendedOnly(is_extended, from_id, to_id, rtr_only, rtr_too) ==
    BitOr(ShiftLeft(BitAnd(from_id, to_id), 3), IF rtr_only THEN Word(4) ELSE Word(0))

\* Variant of calculate_amr that never masks the RTR bit.
calculate_amr_DataOnly(is_extended, from_id, to_id, rtr_only, rtr_too) ==
    IF is_extended
    THEN BitOr(ShiftLeft(BitXor(from_id, to_id), 3), Word(3))
    ELSE BitOr(ShiftLeft(BitXor(from_id, to_id), 21), Word(1048575))

calculate_amr(is_extended, from_id, to_id, rtr_only, rtr_too) ==
    IF is_extended
    THEN BitOr(ShiftLeft(BitXor(from_id, to_id), 3),
               IF rtr_too /\ ~rtr_only THEN Word(7) ELSE Word(3))
    ELSE BitOr(ShiftLeft(BitXor(from_id, to_id), 21),
               IF rtr_too /\ ~rtr_only THEN Word(2097151) ELSE Word(1048575))

calculate_acr(is_extended, from_id, to_id, rtr_only, rtr_too) ==
    IF is_extended
    THEN BitOr(ShiftLeft(BitAnd(from_id, to_id), 3), IF rtr_only THEN Word(4) ELSE Word(0))
    ELSE BitOr(ShiftLeft(BitAnd(from_id, to_id), 21), IF rtr_only THEN Word(1048576) ELSE Word(0))

\* How many bits of an identifier may differ from a chosen one.
MaxFlip == 1

\* The width of a CAN identifier and its position in the filter registers.
IdBits(is_extended) == IF is_extended THEN 29 ELSE 11

IdShift(is_extended) == IF is_extended THEN 3 ELSE 21

RECURSIVE FewBits(_, _)
\* The identifiers of the given width with at most k one-bits.
FewBits(bits, k) ==
    IF k = 0 THEN {{}}
    ELSE FewBits(bits, k - 1) \cup {d \cup {i} : d \in FewBits(bits, k - 1), i \in 0..(bits - 1)}

\* Identifiers with few one-bits or few zero-bits, and the two alternating ones.
SampleIds(is_extended) ==
    LET bits == IdBits(is_extended)
    IN  FewBits(bits, MaxFlip)
        \cup {(0..(bits - 1)) \ d : d \in FewBits(bits, MaxFlip)}
        \cup {{i \in 0..(bits - 1) : i % 2 = r} : r \in {0, 1}}

\* The ends of identifier ranges.
RangeIds(is_extended) ==
    {Word(0), Word(1), Word(2), Word(4), 0..(IdBits(is_extended) - 1)}

FilterArg(is_extended, from_id, to_id, rtr_only, rtr_too) ==
    [of |-> "filter", is_extended |-> is_extended, from_id |-> from_id, to_id |-> to_id,
     rtr_only |-> rtr_only, rtr_too |-> rtr_too]

FilterArgs ==
    UNION {{FilterArg(e, x, x, ro, rt) : x \in SampleIds(e), ro \in BOOLEAN, rt \in BOOLEAN}
           \cup {FilterArg(e, f, t, ro, rt) :
                    f \in RangeIds(e), t \in RangeIds(e), ro \in BOOLEAN, rt \in BOOLEAN} :
           e \in BOOLEAN}

\* A caller computes the acceptance filter for an identifier range.
CalculateFilter ==
    /\ input.of = "filter"
    /\ verdict = NoVerdict
    /\ verdict' = [of |-> "filter",
                   amr |-> calculate_amr(input.is_extended, input.from_id, input.to_id,
                                         input.rtr_only, input.rtr_too),
                   acr |-> calculate_acr(input.is_extended, input.from_id, input.to_id,
                                         input.rtr_only, input.rtr_too)]
    /\ UNCHANGED <<rc, input, sessionVars>>

\* Variant of convert_to_minor_ver that leaves the byte where it is.
convert_to_minor_ver_Unshifted(version) == BitAnd(version, Word(65280))

convert_to_major_ver(version) == BitAnd(version, Word(255))

convert_to_minor_ver(version) == ShiftRight(BitAnd(version, Word(65280)), 8)

check_version_is_equal_or_higher(version, cmp_major, cmp_minor) ==
    \/ Val(convert_to_major_ver(version)) > cmp_major
    \/ /\ Val(convert_to_major_ver(version)) = cmp_major
       /\ Val(convert_to_minor_ver(version)) >= cmp_minor

\* Version bytes around the comparisons of interest, and the extremes.
VersionBytes == {0, 1, 2, 3, 16, 17, 99, 255}

\* The release half of a 32-bit version number.
ReleaseWords == {Word(0), Word(65535)}

\* A 32-bit version number: release << 16 | minor << 8 | major.
VersionWord(major, minor, release) ==
    BitOr(BitOr(Word(major), ShiftLeft(Word(minor), 8)), ShiftLeft(release, 16))

VersionArgs ==
    {[of |-> "version", version |-> VersionWord(ma, mi, re), cmp_major |-> cma, cmp_minor |-> cmi] :
        ma \in VersionBytes, mi \in VersionBytes, re \in ReleaseWords,
        cma \in VersionBytes, cmi \in VersionBytes}

CheckVersion ==
    /\ input.of = "version"
    /\ verdict = NoVerdict
    /\ verdict' = [of |-> "version",
                   out |-> check_version_is_equal_or_higher(input.version, input.cmp_major,
                                                            input.cmp_minor)]
    /\ UNCHANGED <<rc, input, sessionVars>>

(***************************************************************************)
(* The ctypes structure InitCanParam.  Storing a Python int into a field   *)
(* or passing it for a parameter of a fixed-width type keeps its low bits.  *)
(***************************************************************************)
BYTE(v) == v \cap (0..7)

WORD(v) == v \cap (0..15)

DWORD(v) == v \cap (0..31)

AMR_ALL == 0..31

ACR_ALL == Word(0)

MODE_NORMAL == Word(0)

OCR_DEFAULT == Word(26)

BAUDEX_USE_BTR01 == Word(0)

\* sizeof(InitCanParam) with _pack_ = 1.
SizeofInitCanParam == Word(24)

\* Variant of the constructor that stores the low byte of BTR in both registers.
InitCanParam_LowByteTwice(mode, BTR, OCR, AMR, ACR, baudrate, rx_buffer_entries, tx_buffer_entries) ==
    [m_dwSize |-> DWORD(SizeofInitCanParam),
     m_bMode |-> BYTE(mode),
     m_bBTR0 |-> BYTE(BTR),
     m_bBTR1 |-> BYTE(BTR),
     m_bOCR |-> BYTE(OCR),
     m_dwAMR |-> DWORD(AMR),
     m_dwACR |-> DWORD(ACR),
     m_dwBaudrate |-> DWORD(baudrate),
     m_wNrOfRxBufferEntries |-> WORD(rx_buffer_entries),
     m_wNrOfTxBufferEntries |-> WORD(tx_buffer_entries)]

\* InitCanParam.__init__
InitCanParam(mode, BTR, OCR, AMR, ACR, baudrate, rx_buffer_entries, tx_buffer_entries) ==
    [m_dwSize |-> DWORD(SizeofInitCanParam),
     m_bMode |-> BYTE(mode),
     m_bBTR0 |-> BYTE(ShiftRight(BTR, 8)),
     m_bBTR1 |-> BYTE(BTR),
     m_bOCR |-> BYTE(OCR),
     m_dwAMR |-> DWORD(AMR),
     m_dwACR |-> DWORD(ACR),
     m_dwBaudrate |-> DWORD(baudrate),
     m_wNrOfRxBufferEntries |-> WORD(rx_buffer_entries),
     m_wNrOfTxBufferEntries |-> WORD(tx_buffer_entries)]

\* The property InitCanParam.BTR (getter).
InitCanParam_BTR(self) == BitOr(ShiftLeft(self.m_bBTR0, 8), self.m_bBTR1)

\* @property: a property with the getter only; a getter or setter is named
\* by the field it reads or writes.
PropertyGetter(fget) == [fget |-> fget, fset |-> "none"]

\* @prop.setter: a copy of the property prop with the setter replaced.
PropertySetter(prop, fset) == [prop EXCEPT !.fset = fset]

\* The class attribute rx_buffer_entries after "@property" and
\* "@rx_buffer_entries.setter".
InitCanParam_rx_buffer_entries ==
    PropertySetter(PropertyGetter("m_wNrOfRxBufferEntries"), "m_wNrOfRxBufferEntries")

\* The class attribute tx_buffer_entries: "@property" binds a getter of the
\* transmit field, then "@rx_buffer_entries.setter" rebinds the name to a copy
\* of the property rx_buffer_entries with the setter of the transmit field.
InitCanParam_tx_buffer_entries ==
    PropertySetter(InitCanParam_rx_buffer_entries, "m_wNrOfTxBufferEntries")

InitCanParamProperty(name) ==
    IF name = "rx_buffer_entries" THEN InitCanParam_rx_buffer_entries
    ELSE InitCanParam_tx_buffer_entries

\* self.<name>
GetProperty(self, name) == self[InitCanParamProperty(name).fget]

\* self.<name> = value, for the WORD fields behind the two properties
SetProperty(self, name, value) ==
    [self EXCEPT ![InitCanParamProperty(name).fset] = WORD(value)]

\* The buffer depths a caller builds an InitCanParam with.
DepthArgs == {Word(0), Word(1), Word(4096), Word(65535)}

InitParamArgs ==
    {[of |-> "init_param", rx_buffer_entries |-> rx, tx_buffer_entries |-> tx,
      assign |-> name, value |-> Word(7)] :
        rx \in DepthArgs, tx \in DepthArgs, name \in {"rx_buffer_entries", "tx_buffer_entries"}}

\* A caller builds an InitCanParam, reads its two buffer properties and
\* assigns to one of them.
UseInitCanParam ==
    /\ input.of = "init_param"
    /\ verdict = NoVerdict
    /\ LET self == InitCanParam(MODE_NORMAL, Word(20), OCR_DEFAULT, AMR_ALL, ACR_ALL,
                                BAUDEX_USE_BTR01, input.rx_buffer_entries,
                                input.tx_buffer_entries)
       IN  verdict' = [of |-> "init_param",
                       built |-> self,
                       rx_buffer_entries |-> GetProperty(self, "rx_buffer_entries"),
                       tx_buffer_entries |-> GetProperty(self, "tx_buffer_entries"),
                       assigned |-> SetProperty(self, input.assign, input.value)]
    /\ UNCHANGED <<rc, input, sessionVars>>

InitHelpers ==
    /\ input \in FlagArgs \cup FilterArgs \cup VersionArgs \cup InitParamArgs
    /\ rc = 0
    /\ verdict = NoVerdict
    /\ sessions = <<>>
    /\ cls_connect_control_ref = "None"
    /\ calls = <<>>
    /\ last = NoOp
    /\ nRegister = 0
    /\ live = <<>>

NextHelpers ==
    \/ ReadFlag
    \/ CalculateFilter
    \/ CheckVersion
    \/ UseInitCanParam

SpecHelpers == InitHelpers /\ [][NextHelpers]_vars

(***************************************************************************)
(* One session whose channels are configured: init_can with its timing     *)
(* and buffer parameters, set_baudrate and define_cyclic_can_msg.          *)
(***************************************************************************)
\* init_can with the parameters that reach the InitCanParam; the others keep
\* their defaults.
InitCanWith(s, channel, BTR, rx_buffer_entries, tx_buffer_entries, ret) ==
    LET sess == sessions[s]
        args == <<channel, BTR, rx_buffer_entries, tx_buffer_entries>> IN
    IF InitCanGuard(sess, channel)
    THEN LET init_param == InitCanParam(MODE_NORMAL, BTR, OCR_DEFAULT, AMR_ALL, ACR_ALL,
                                        BAUDEX_USE_BTR01, rx_buffer_entries,
                                        tx_buffer_entries)
             call == NativeCall("UcanInitCanEx2", <<sess.handle, channel, init_param>>, ret) IN
         Finish("init_can", s, args,
                IF Raised(call) THEN sess ELSE ChSet(sess, channel, TRUE),
                <<call>>, ExcClass(call))
    ELSE Finish("init_can", s, args, sess, <<>>, "none")

\* set_baudrate: a pass-through call; its two BYTE parameters take BTR >> 8 and BTR.
SetBaudrate(s, channel, BTR, baudarate, ret) ==
    LET sess == sessions[s]
        call == NativeCall("UcanSetBaudrateEx",
                           <<sess.handle, channel, BYTE(ShiftRight(BTR, 8)), BYTE(BTR),
                             DWORD(baudarate)>>, ret) IN
    Finish("set_baudrate", s, <<channel, BTR, baudarate>>, sess, <<call>>, ExcClass(call))

MAX_CYCLIC_CAN_MSG == 16

\* The longest list handed to define_cyclic_can_msg.
MaxCyclicList == 17

\* define_cyclic_can_msg: can_msg is a list of messages or <<"None">>.
DefineCyclicCanMsg(s, channel, can_msg, ret) ==
    LET sess == sessions[s]
        c_count == IF can_msg # <<"None">> THEN Len(can_msg) ELSE 0
        call == NativeCall("UcanDefineCyclicCanMsg", <<sess.handle, channel, c_count>>, ret) IN
    Finish("define_cyclic_can_msg", s, <<channel, can_msg>>, sess, <<call>>, ExcClass(call))

\* The arguments for can_msg: None, and lists of 0, 1, 16 and more messages.
CyclicListArgs ==
    {<<"None">>} \cup {[i \in 1..n |-> "CanMsg"] : n \in {0, 1, MAX_CYCLIC_CAN_MSG, MaxCyclicList}}

\* The BTR values handed in: both bytes zero, one byte zero, both mixed, both all ones.
BtrArgs == {Word(0), Word(20), Word(4660), Word(65280), Word(65535)}

\* The buffer depths handed in.
BufferArgs == {Word(4096), Word(65535)}

NextConfig ==
    \/ \E s \in DOMAIN sessions, serial \in SerialArgs, ret \in NativeRetCodes,
          h \in ValidHandles \cup {INVALID_HANDLE} : InitHardware(s, serial, ret, h)
    \/ \E s \in DOMAIN sessions, channel \in Channels01, BTR \in BtrArgs,
          rx_buffer_entries \in BufferArgs, tx_buffer_entries \in BufferArgs,
          ret \in NativeRetCodes :
          InitCanWith(s, channel, BTR, rx_buffer_entries, tx_buffer_entries, ret)
    \/ \E s \in DOMAIN sessions, channel \in Channels01, BTR \in BtrArgs,
          ret \in NativeRetCodes :
          SetBaudrate(s, channel, BTR, BAUDEX_USE_BTR01, ret)
    \/ \E s \in DOMAIN sessions, channel \in Channels01, can_msg \in CyclicListArgs,
          ret \in NativeRetCodes :
          DefineCyclicCanMsg(s, channel, can_msg, ret)

SpecConfig == Init /\ [][NextConfig]_vars

(***************************************************************************)
(* Properties.                                                             *)
(***************************************************************************)

IsInitCan(op, c) == op.op = "init_can" /\ op.args = <<c>>

IsShutdownAll(op) == op.op = "shutdown" /\ op.args = <<CHANNEL_ALL, TRUE>>

\* The state of a session with nothing initialized.
Clean(sess) ==
    /\ sess.handle = INVALID_HANDLE
    /\ ~sess.hw_is_initialized
    /\ \A k \in DOMAIN sess.ch_is_initialized : ~sess.ch_is_initialized[k]

\* C1: init_can(c) on a session whose flag for channel c (CH0 or CH1) is
\* already true is a no-op: it issues no native call, raises nothing and
\* leaves the session (handle, hardware flag, channel flags) unchanged.
C1_InitCanNoOp ==
    [][\A c \in Channels01 :
          (IsInitCan(last', c) /\ ChGet(sessions[last'.s], c))
          => /\ calls' = <<>>
             /\ last'.raised = "none"
             /\ sessions' = sessions]_vars

C1_Witness ==
    \E c \in Channels01 :
        /\ IsInitCan(last, c)
        /\ ChGet(sessions[last.s], c)
        /\ calls = <<>>
        /\ sessions[last.s].hw_is_initialized

\* C2: a shutdown(CHANNEL_ALL, shutdown_hardware=True) whose native calls do
\* not raise leaves the handle at the sentinel and the hardware flag and every
\* channel flag false; the same shutdown called again right after it raises
\* nothing, issues no native call and leaves the session unchanged.
C2_ShutdownIdempotent ==
    [][/\ (IsShutdownAll(last') /\ last'.raised = "none")
          => Clean(sessions'[last'.s])
       /\ (IsShutdownAll(last') /\ last'.repeat)
          => /\ calls' = <<>>
             /\ last'.raised = "none"
             /\ sessions' = sessions]_vars

C2_Witness ==
    /\ IsShutdownAll(last)
    /\ last.repeat
    /\ calls = <<>>
    /\ Clean(sessions[last.s])
    /\ CHANNEL_ALL \in DOMAIN sessions[last.s].ch_is_initialized

\* C3: however many sessions a process constructs, the native connect-control
\* registration UcanInitHwConnectControlEx is issued at most once.
C3_RegisteredAtMostOnce == nRegister <= 1

\* C4: in every reachable state the handle of a session is the sentinel
\* INVALID_HANDLE exactly when its hardware-initialized flag is false.
C4_HandleSentinelIffNoHardware ==
    \A s \in DOMAIN sessions :
        (sessions[s].handle = INVALID_HANDLE) <=> ~sessions[s].hw_is_initialized

C4_Witness ==
    \E s \in DOMAIN sessions :
        /\ sessions[s].hw_is_initialized
        /\ sessions[s].handle \in ValidHandles
        /\ last.op = "shutdown"
        /\ last.raised # "none"
        /\ calls[Len(calls)].fn = "UcanDeinitHardware"

\* C5: in every reachable state a channel (CH0, CH1) is flagged initialized
\* only on a session whose hardware-initialized flag is true.
C5_ChannelOnlyOnHardware ==
    \A s \in DOMAIN sessions : \A c \in Channels01 :
        sessions[s].ch_is_initialized[c] => sessions[s].hw_is_initialized

\* C6: the native channel init UcanInitCanEx2 is never issued for a channel
\* (CH0, CH1) that an earlier native init opened successfully unless a native
\* channel deinit UcanDeinitCanEx for it was issued in between.
C6_NoDoubleNativeInit ==
    [][\A i \in DOMAIN calls' :
          (calls'[i].fn = "UcanInitCanEx2" /\ calls'[i].args[2] \in Channels01)
          => calls'[i].args[2] \notin live[last'.s]]_vars

C6_Witness ==
    \E c \in Channels01 :
        /\ IsInitCan(last, c)
        /\ last.repeat
        /\ c \in live[last.s]
        /\ calls = <<>>

\* C7: for every return code c in 0..255: 1 <= c < 0x80 is an error and no
\* warning, c >= 0x80 is a warning and no error, c = 0 is neither; never both.
C7_ErrorWarningBands ==
    verdict.of = "classification" =>
        /\ (1 <= rc /\ rc < 128) => (verdict.error /\ ~verdict.warning)
        /\ rc >= 128 => (verdict.warning /\ ~verdict.error)
        /\ rc = 0 => (~verdict.error /\ ~verdict.warning)
        /\ ~(verdict.error /\ verdict.warning)

C7_Witness == verdict.of = "classification" /\ rc = 128 /\ verdict.warning

\* C8: for every return code c in 0..255, check_error_cmd(c) is true exactly
\* when 0x40 <= c < 0x80, and check_error_cmd(c) implies check_error(c).
C8_ErrorCmdBand ==
    verdict.of = "classification" =>
        /\ verdict.error_cmd <=> (64 <= rc /\ rc < 128)
        /\ verdict.error_cmd => verdict.error

C8_Witness == verdict.of = "classification" /\ rc = 127 /\ verdict.error_cmd

\* C9: check_result has exactly one outcome per band of the code c: c = 0
\* returns the result, c >= 0x80 logs one warning and returns the result,
\* 0x40 <= c < 0x80 raises USBCanCmdError, 1 <= c < 0x40 raises USBCanError;
\* what is raised carries the raw code, the function and the call arguments.
C9_CheckResultOutcome ==
    verdict.of = "check_result" =>
        LET o == verdict.out
            payload(cls) == [cls |-> cls, result |-> rc, func |-> verdict.func,
                             arguments |-> verdict.arguments]
        IN  /\ rc = 0 =>
                 o.kind = "return" /\ o.value = rc /\ o.logged = <<>> /\ o.exc = <<>>
            /\ rc >= 128 =>
                 /\ o.kind = "return" /\ o.value = rc /\ o.exc = <<>>
                 /\ o.logged = <<payload("USBCanWarning")>>
            /\ (64 <= rc /\ rc < 128) =>
                 /\ o.kind = "raise" /\ o.logged = <<>>
                 /\ o.exc = <<payload("USBCanCmdError")>>
            /\ (1 <= rc /\ rc < 64) =>
                 /\ o.kind = "raise" /\ o.logged = <<>>
                 /\ o.exc = <<payload("USBCanError")>>

C9_Witness ==
    /\ verdict.of = "check_result"
    /\ rc = 63
    /\ verdict.out.kind = "raise"
    /\ verdict.out.exc[1].cls = "USBCanError"

\* C10: check_valid_rx_can_msg and check_tx_ok agree on every return code c in
\* 0..255 and are true exactly for c = 0 and for c > 0x80; they are false for
\* WARN_NODATA (0x80) and for every error code 1..0x7F.
C10_RxValidTxOkAgree ==
    verdict.of = "classification" =>
        /\ verdict.valid_rx_can_msg = verdict.tx_ok
        /\ verdict.valid_rx_can_msg <=> (rc = 0 \/ rc > 128)
        /\ verdict.tx_ok <=> (rc = 0 \/ rc > 128)

C10_Witness ==
    /\ verdict.of = "classification"
    /\ rc = 128
    /\ ~verdict.valid_rx_can_msg
    /\ ~verdict.tx_ok

\* C11: for every return code c in 0..255: check_tx_success(c) is true only
\* for c = 0, check_tx_not_all(c) only for c = WARN_TXLIMIT (0x91); the two
\* are never both true, and check_tx_not_all(c) implies check_tx_ok(c).
C11_TxSuccessNotAll ==
    verdict.of = "classification" =>
        /\ verdict.tx_success <=> rc = 0
        /\ verdict.tx_not_all <=> rc = 145
        /\ ~(verdict.tx_success /\ verdict.tx_not_all)
        /\ verdict.tx_not_all => verdict.tx_ok

C11_Witness ==
    /\ verdict.of = "classification"
    /\ rc = 145
    /\ verdict.tx_not_all
    /\ verdict.tx_ok
    /\ ~verdict.tx_success

\* The acceptance rule of the CAN controller: the identifier y, placed at its
\* position in the register, may differ from ACR only where AMR has a one.
Accepted(y, shift, amr, acr) == BitXor(ShiftLeft(y, shift), acr) \ amr = {}

\* The composite constants the flag classes define.
CompositeNames ==
    {"PENDING_FLAG_RX_ALL", "PENDING_FLAG_TX_ALL", "PENDING_FLAG_ALL",
     "RESET_NO_COUNTER_ALL", "RESET_NO_TXBUFFER_COMM", "RESET_NO_RXBUFFER_COMM",
     "RESET_NO_TXBUFFER_ALL", "RESET_NO_RXBUFFER_ALL", "RESET_NO_BUFFER_COMM",
     "RESET_NO_BUFFER_ALL"}

\* The values of the primitive (non-composite) flags of a class.
Primitives(cls) ==
    {FlagClass(cls)[n] : n \in (DOMAIN FlagClass(cls)) \ CompositeNames}

\* C12: every composite constant of PendingFlags and every composite
\* RESET_NO_* constant of ResetFlags equals the bitwise OR of named primitive
\* flags of its class, so every bit set in a composite is the value of a
\* named primitive flag.
C12_CompositeIsOrOfPrimitives ==
    (verdict.of = "flag" /\ input.name \in CompositeNames) =>
        /\ \E S \in SUBSET Primitives(input.cls) : verdict.value = UNION S
        /\ \A b \in verdict.value : {b} \in Primitives(input.cls)

\* C13: single-identifier filter: with AMR and ACR computed for the range x..x
\* (default rtr flags), an identifier y is accepted iff y = x, and every AMR
\* bit in the identifier positions is 0.
C13_SingleIdFilter ==
    (/\ verdict.of = "filter"
     /\ input.from_id = input.to_id
     /\ ~input.rtr_only
     /\ input.rtr_too) =>
        LET x == input.from_id
            bits == IdBits(input.is_extended)
            shift == IdShift(input.is_extended)
        IN  /\ \A d \in FewBits(bits, MaxFlip + 1) \cup SampleIds(input.is_extended) :
                   LET y == BitXor(x, d)
                   IN  Accepted(y, shift, verdict.amr, verdict.acr) <=> y = x
            /\ \A i \in shift..(shift + bits - 1) : i \notin verdict.amr

C13_Witness ==
    /\ verdict.of = "filter"
    /\ ~input.is_extended
    /\ input.from_id = Word(1365)
    /\ input.to_id = Word(1365)
    /\ ~input.rtr_only
    /\ input.rtr_too
    /\ verdict.acr = ShiftLeft(Word(1365), 21)
    /\ verdict.amr = Word(2097151)

\* C14: check_version_is_equal_or_higher(v, cmp_major, cmp_minor) is true iff
\* the low byte of v exceeds cmp_major, or equals it and the second byte of v
\* is at least cmp_minor; version (2, 16) is >= (2, 16) and (1, 99) but not
\* >= (2, 17) or (3, 0).
C14_VersionOrder ==
    verdict.of = "version" =>
        LET major == Val(input.version \cap (0..7))
            minor == Val({i - 8 : i \in input.version \cap (8..15)})
        IN  /\ verdict.out <=>
                  (major > input.cmp_major \/ (major = input.cmp_major /\ minor >= input.cmp_minor))
            /\ (major = 2 /\ minor = 16) =>
                  /\ (input.cmp_major = 2 /\ input.cmp_minor = 16) => verdict.out
                  /\ (input.cmp_major = 1 /\ input.cmp_minor = 99) => verdict.out
                  /\ (input.cmp_major = 2 /\ input.cmp_minor = 17) => ~verdict.out
                  /\ (input.cmp_major = 3 /\ input.cmp_minor = 0) => ~verdict.out

C14_Witness ==
    /\ verdict.of = "version"
    /\ input.version = VersionWord(2, 16, Word(65535))
    /\ input.cmp_major = 2
    /\ input.cmp_minor = 17
    /\ ~verdict.out

C16_ReadResult ==
    [][last'.op = "read_can_msg" =>
          /\ sessions' = sessions
          /\ last'.raised = "none" =>
                /\ Len(last'.result[1]) = calls'[1].out.count
                /\ Len(last'.result[1]) \in 0..last'.args[2]
                /\ \A i \in DOMAIN last'.result[1] : last'.result[1][i] = "received"
                /\ last'.result[2] = calls'[1].out.channel]_vars

C16_Witness ==
    /\ last.op = "read_can_msg"
    /\ last.args = <<CHANNEL_ANY, 2>>
    /\ last.raised = "none"
    /\ calls[1].out = [count |-> 1, channel |-> CHANNEL_CH1]
    /\ last.result = <<<<"received">>, CHANNEL_CH1>>
    /\ sessions[1].hw_is_initialized

\* The positions of the native calls of function fn among the calls of a method.
CallsOf(cs, fn) == {i \in DOMAIN cs : cs[i].fn = fn}

\* The channel deinit calls addressed to channel c.
DeinitsOf(cs, c) == {i \in CallsOf(cs, "UcanDeinitCanEx") : cs[i].args[2] = c}

\* What the claim C17 says of a shutdown(channel, shutdown_hardware) that took
\* the session from pre to post and issued the native calls cs.
ShutdownAsClaimed(pre, post, cs, channel, shutdown_hardware) ==
    /\ \A c \in Channels01 :
          LET selected == /\ ChGet(pre, c)
                          /\ (c = channel \/ channel = CHANNEL_ALL \/ shutdown_hardware)
          IN  /\ Cardinality(DeinitsOf(cs, c)) = IF selected THEN 1 ELSE 0
              /\ ChGet(post, c) = IF selected THEN FALSE ELSE ChGet(pre, c)
    /\ IF shutdown_hardware /\ pre.hw_is_initialized
       THEN /\ Cardinality(CallsOf(cs, "UcanDeinitHardware")) = 1
            /\ post.handle = INVALID_HANDLE
            /\ ~post.hw_is_initialized
       ELSE /\ CallsOf(cs, "UcanDeinitHardware") = {}
            /\ post.handle = pre.handle
            /\ post.hw_is_initialized = pre.hw_is_initialized
    /\ \A i \in CallsOf(cs, "UcanDeinitCanEx"), j \in CallsOf(cs, "UcanDeinitHardware") : i < j

\* What is left of it when the native call number Len(cs) failed: the calls
\* before it took effect, the failing call and everything after it did not.
ShutdownCutShort(pre, post, cs, channel, shutdown_hardware) ==
    /\ cs # <<>>
    /\ Raised(cs[Len(cs)])
    /\ \A i \in 1..(Len(cs) - 1) : ~Raised(cs[i])
    /\ \A c \in Channels01 :
          /\ Cardinality(DeinitsOf(cs, c)) <= 1
          /\ DeinitsOf(cs, c) # {} =>
                /\ ChGet(pre, c)
                /\ (c = channel \/ channel = CHANNEL_ALL \/ shutdown_hardware)
          /\ ChGet(post, c) =
                IF DeinitsOf(cs, c) # {} /\ DeinitsOf(cs, c) # {Len(cs)}
                THEN FALSE ELSE ChGet(pre, c)
    /\ CallsOf(cs, "UcanDeinitHardware") \subseteq {Len(cs)}
    /\ CallsOf(cs, "UcanDeinitHardware") # {} => (shutdown_hardware /\ pre.hw_is_initialized)
    /\ post.handle = pre.handle
    /\ post.hw_is_initialized = pre.hw_is_initialized

\* C17: shutdown(channel, shutdown_hardware) issues the native channel deinit
\* for exactly the channels c of {CH0, CH1} whose flag is true and for which
\* c = channel, channel = CHANNEL_ALL or shutdown_hardware holds, and clears
\* their flags; afterwards it issues the native hardware deinit and resets the
\* handle iff shutdown_hardware holds and the hardware flag was true; channel
\* deinit calls precede the hardware deinit call.  (As stated: of every
\* shutdown.)
C17_ShutdownAsStated ==
    [][last'.op = "shutdown" =>
          ShutdownAsClaimed(sessions[last'.s], sessions'[last'.s], calls',
                            last'.args[1], last'.args[2])]_vars

\* C17, amended: the statement holds of every shutdown none of whose native
\* calls fails; a failing native call ends the shutdown with an exception,
\* the calls before it having taken effect and nothing else.
C17_ShutdownUnlessRaised ==
    [][last'.op = "shutdown" =>
          IF last'.raised = "none"
          THEN ShutdownAsClaimed(sessions[last'.s], sessions'[last'.s], calls',
                                 last'.args[1], last'.args[2])
          ELSE ShutdownCutShort(sessions[last'.s], sessions'[last'.s], calls',
                                last'.args[1], last'.args[2])]_vars

C17_Witness ==
    /\ last.op = "shutdown"
    /\ last.args = <<CHANNEL_CH0, TRUE>>
    /\ last.raised = "none"
    /\ Len(calls) = 3
    /\ calls[1].fn = "UcanDeinitCanEx" /\ calls[1].args[2] = CHANNEL_CH0
    /\ calls[2].fn = "UcanDeinitCanEx" /\ calls[2].args[2] = CHANNEL_CH1
    /\ calls[3].fn = "UcanDeinitHardware"
    /\ sessions[1].handle = INVALID_HANDLE

\* C18: init_hardware on a session whose hardware flag is true issues no
\* native call and leaves the handle and all flags unchanged; otherwise it
\* issues exactly one native call, UcanInitHardwareEx when serial is None and
\* UcanInitHardwareEx2 otherwise, and when that call succeeds the hardware
\* flag becomes true.
C18_InitHardware ==
    [][last'.op = "init_hardware" =>
          LET pre == sessions[last'.s]
              post == sessions'[last'.s]
          IN  IF pre.hw_is_initialized
              THEN calls' = <<>> /\ post = pre /\ last'.raised = "none"
              ELSE /\ Len(calls') = 1
                   /\ calls'[1].fn = IF last'.args[1] = "None"
                                     THEN "UcanInitHardwareEx" ELSE "UcanInitHardwareEx2"
                   /\ calls'[1].ret = 0 => post.hw_is_initialized]_vars

C18_Witness ==
    /\ last.op = "init_hardware"
    /\ last.repeat
    /\ calls = <<>>
    /\ sessions[1].hw_is_initialized

\* C19: for c in {CH0, CH1}, init_can(c) and shutdown(c, FALSE) leave the
\* other channel's flag, the hardware flag and the handle unchanged and issue
\* no native call addressed to the other channel.
C19_ChannelsIndependent ==
    [][\A c \in Channels01 :
          (\/ last'.op = "init_can" /\ last'.args = <<c>>
           \/ last'.op = "shutdown" /\ last'.args = <<c, FALSE>>) =>
             LET pre == sessions[last'.s]
                 post == sessions'[last'.s]
                 other == CHOOSE o \in Channels01 : o # c
             IN  /\ ChGet(post, other) = ChGet(pre, other)
                 /\ post.hw_is_initialized = pre.hw_is_initialized
                 /\ post.handle = pre.handle
                 /\ \A i \in DOMAIN calls' :
                       Len(calls'[i].args) >= 2 => calls'[i].args[2] # other]_vars

C19_Witness ==
    /\ last.op = "shutdown"
    /\ last.args = <<CHANNEL_CH0, FALSE>>
    /\ Len(calls) = 1
    /\ calls[1].fn = "UcanDeinitCanEx" /\ calls[1].args[2] = CHANNEL_CH0
    /\ ~sessions[1].ch_is_initialized[CHANNEL_CH0]
    /\ sessions[1].ch_is_initialized[CHANNEL_CH1]
    /\ sessions[1].hw_is_initialized

\* C20: the working callback invokes exactly one hook for each of the event
\* codes 0..5 (init_hw_event, init_can_event, can_msg_received_event,
\* status_event, deinit_can_event, deinit_hw_event) and none for any other
\* code; the connect-control callback invokes exactly one hook for each of the
\* codes 6, 7, 8 (connect_event, disconnect_event, fatal_disconnect_event with
\* the event parameter) and none for any other code.
C20_DispatchByEventCode ==
    /\ last.op = "_callback" =>
          LET event == last.args[2]
              channel == last.args[3]
              hooks == last.result
          IN  /\ event \in 0..5 <=> Len(hooks) = 1
              /\ event \notin 0..5 <=> hooks = <<>>
              /\ event = 0 => hooks[1] = [name |-> "init_hw_event", args |-> <<>>]
              /\ event = 1 => hooks[1] = [name |-> "init_can_event", args |-> <<channel>>]
              /\ event = 2 => hooks[1] = [name |-> "can_msg_received_event", args |-> <<channel>>]
              /\ event = 3 => hooks[1] = [name |-> "status_event", args |-> <<channel>>]
              /\ event = 4 => hooks[1] = [name |-> "deinit_can_event", args |-> <<channel>>]
              /\ event = 5 => hooks[1] = [name |-> "deinit_hw_event", args |-> <<>>]
    /\ last.op = "_connect_control" =>
          LET event == last.args[1]
              param == last.args[2]
              hooks == last.result
          IN  /\ event \in 6..8 <=> Len(hooks) = 1
              /\ event \notin 6..8 <=> hooks = <<>>
              /\ event = 6 => hooks[1] = [name |-> "connect_event", args |-> <<>>]
              /\ event = 7 => hooks[1] = [name |-> "disconnect_event", args |-> <<>>]
              /\ event = 8 => hooks[1] = [name |-> "fatal_disconnect_event", args |-> <<param>>]

C20_Witness ==
    /\ last.op = "_connect_control"
    /\ last.args = <<8, 1>>
    /\ last.result = <<[name |-> "fatal_disconnect_event", args |-> <<1>>]>>
    /\ sessions[1].hw_is_initialized

\* The attributes of a session the claims call its state: the handle, the
\* hardware flag and the channel flags.
Flags(sess) == <<sess.handle, sess.hw_is_initialized, sess.ch_keys, sess.ch_is_initialized>>

\* C21: the native callbacks _callback and _connect_control, with the default
\* hooks, never write the handle, the hardware flag or the channel flags: in
\* every interleaving with the session methods these change only inside
\* init_hardware, init_can and shutdown.
C21_CallbacksWriteNothing ==
    [][/\ last'.op \in {"_callback", "_connect_control"} =>
             Flags(sessions'[last'.s]) = Flags(sessions[last'.s])
       /\ \A s \in DOMAIN sessions :
             Flags(sessions'[s]) # Flags(sessions[s]) =>
                last'.s = s /\ last'.op \in {"init_hardware", "init_can", "shutdown"}]_vars

C21_Witness ==
    /\ last.op = "_callback"
    /\ last.args[2] = EVENT_DEINITHW
    /\ last.result = <<[name |-> "deinit_hw_event", args |-> <<>>]>>
    /\ sessions[1].hw_is_initialized
    /\ sessions[1].handle # INVALID_HANDLE
    /\ sessions[1].ch_is_initialized[CHANNEL_CH0]

\* C22: the public is_initialized property reports whether the hardware
\* interface is initialized: in every reachable state it equals the hardware
\* flag (true after a successful init_hardware, false again after a shutdown
\* with shutdown_hardware = True).
C22_IsInitializedIsHardwareFlag ==
    \A s \in DOMAIN sessions :
        is_initialized(sessions[s]) = sessions[s].hw_is_initialized

\* The state of a freshly constructed session: the sentinel handle, the
\* hardware flag false and exactly the two channel flags, both false.
Fresh(sess) ==
    /\ sess.handle = INVALID_HANDLE
    /\ ~sess.hw_is_initialized
    /\ DOMAIN sess.ch_is_initialized = Channels01
    /\ \A c \in Channels01 : ~sess.ch_is_initialized[c]

\* C23: after a successful shutdown(CHANNEL_ALL, shutdown_hardware=True),
\* reached from any state, the session state equals that of a freshly
\* constructed session, and a following init_hardware issues the native
\* hardware init again and, when that succeeds, makes the session
\* hardware-initialized again.
C23_ShutdownRestoresFresh ==
    [][/\ (IsShutdownAll(last') /\ last'.raised = "none")
          => Fresh(sessions'[last'.s])
       /\ (/\ IsShutdownAll(last) /\ last.raised = "none"
           /\ last'.op = "init_hardware" /\ last'.s = last.s)
          => /\ Len(calls') = 1
             /\ calls'[1].fn \in {"UcanInitHardwareEx", "UcanInitHardwareEx2"}
             /\ calls'[1].ret = 0 => sessions'[last'.s].hw_is_initialized]_vars

\* C28: the set of channels a session tracks stays {CHANNEL_CH0, CHANNEL_CH1}
\* after any sequence of operations: init_can with another channel value
\* records no additional channel, and shutdown issues no native channel
\* deinit for a channel other than 0 or 1.
C28_TrackedChannelsFixed ==
    /\ \A s \in DOMAIN sessions : DOMAIN sessions[s].ch_is_initialized = Channels01
    /\ \A i \in DOMAIN calls :
          calls[i].fn = "UcanDeinitCanEx" => calls[i].args[2] \in Channels01

\* The largest of the small identifiers tried as members of a range.
MaxSmallId == 7

\* The acceptance rule restricted to the identifier positions of the registers.
AcceptedOnIdBits(y, is_extended, amr, acr) ==
    LET shift == IdShift(is_extended)
        positions == shift..(shift + IdBits(is_extended) - 1)
    IN  (BitXor(ShiftLeft(y, shift), acr) \ amr) \cap positions = {}

\* C24: range filter: for identifiers from_id <= to_id of either width, with
\* AMR and ACR computed for the range (default rtr flags), every identifier y
\* with from_id <= y <= to_id is received, i.e. agrees with ACR on every
\* identifier position that AMR does not mask.
C24_RangeFilterReceivesRange ==
    (/\ verdict.of = "filter"
     /\ ~input.rtr_only
     /\ input.rtr_too
     /\ Val(input.from_id) <= Val(input.to_id)) =>
        \A y \in {Word(n) : n \in 0..MaxSmallId} \cup SampleIds(input.is_extended) :
            (Val(input.from_id) <= Val(y) /\ Val(y) <= Val(input.to_id)) =>
                AcceptedOnIdBits(y, input.is_extended, verdict.amr, verdict.acr)

\* The two bytes of a 16-bit value.
HighByte(v) == {i - 8 : i \in v \cap (8..15)}

LowByte(v) == v \cap (0..7)

\* C25: the 16-bit BTR argument carries BTR0 as its high byte and BTR1 as its
\* low byte: the InitCanParam built by init_can stores BTR0 = BTR >> 8 and
\* BTR1 = BTR AND 0xFF, set_baudrate passes the same two bytes to the native
\* call, and the BTR property of the built InitCanParam returns BTR.
C25_BtrBytes ==
    /\ (last.op = "init_can" /\ calls # <<>>) =>
          LET BTR == last.args[2]
              init_param == calls[1].args[3]
          IN  /\ init_param.m_bBTR0 = HighByte(BTR)
              /\ init_param.m_bBTR1 = LowByte(BTR)
              /\ InitCanParam_BTR(init_param) = BTR
    /\ last.op = "set_baudrate" =>
          LET BTR == last.args[2]
          IN  /\ calls[1].args[3] = HighByte(BTR)
              /\ calls[1].args[4] = LowByte(BTR)

C25_Witness ==
    /\ last.op = "init_can"
    /\ last.args[2] = Word(4660)
    /\ calls # <<>>
    /\ calls[1].args[3].m_bBTR0 = Word(18)
    /\ calls[1].args[3].m_bBTR1 = Word(52)
    /\ InitCanParam_BTR(calls[1].args[3]) = Word(4660)

\* C26: define_cyclic_can_msg never passes a list of more than
\* MAX_CYCLIC_CAN_MSG (16) messages to the native define call, and with
\* can_msg = None it passes a count of 0.
C26_CyclicListBounded ==
    last.op = "define_cyclic_can_msg" =>
        /\ \A i \in DOMAIN calls :
              calls[i].fn = "UcanDefineCyclicCanMsg" => calls[i].args[3] <= 16
        /\ last.args[2] = <<"None">> =>
              /\ Len(calls) = 1
              /\ calls[1].args[3] = 0

\* The native calls that guard a flag.
GuardingCalls ==
    {"UcanInitHardwareEx", "UcanInitHardwareEx2", "UcanInitCanEx2", "UcanDeinitCanEx",
     "UcanDeinitHardware"}

\* The code is in one of the two error bands 1..0x7F.
InErrorBands(code) == 1 <= code /\ code <= 127

\* C27: a session flag changes only after the native call guarding it
\* returned success or a warning: when UcanInitHardwareEx/Ex2, UcanInitCanEx2,
\* UcanDeinitCanEx or UcanDeinitHardware returns a code of the error bands,
\* the method raises and the flag guarded by that call keeps its value; in
\* shutdown every channel not yet processed, the hardware flag and the handle
\* keep their values too.
C27_FlagsChangeAfterSuccessOnly ==
    [][last'.op \in {"init_hardware", "init_can", "shutdown"} =>
          LET pre == sessions[last'.s]
              post == sessions'[last'.s]
              cs == calls'
              failed == {i \in DOMAIN cs : cs[i].fn \in GuardingCalls /\ InErrorBands(cs[i].ret)}
              passed == {i \in DOMAIN cs : cs[i].fn \in GuardingCalls /\ ~InErrorBands(cs[i].ret)}
          IN  /\ failed # {} =>
                    /\ last'.raised # "none"
                    /\ failed = {Len(cs)}
              /\ \A i \in failed :
                    /\ cs[i].fn \in {"UcanInitHardwareEx", "UcanInitHardwareEx2",
                                     "UcanDeinitHardware"} =>
                          post.hw_is_initialized = pre.hw_is_initialized
                    /\ cs[i].fn \in {"UcanInitCanEx2", "UcanDeinitCanEx"} =>
                          ChGet(post, cs[i].args[2]) = ChGet(pre, cs[i].args[2])
              /\ (failed # {} /\ last'.op = "shutdown") =>
                    /\ post.hw_is_initialized = pre.hw_is_initialized
                    /\ post.handle = pre.handle
                    /\ \A k \in DOMAIN pre.ch_is_initialized :
                          (\A i \in passed : cs[i].args[2] # k) =>
                              ChGet(post, k) = ChGet(pre, k)
              /\ post.hw_is_initialized # pre.hw_is_initialized =>
                    \E i \in passed : cs[i].fn \in {"UcanInitHardwareEx", "UcanInitHardwareEx2",
                                                    "UcanDeinitHardware"}
              /\ \A k \in DOMAIN post.ch_is_initialized :
                    ChGet(post, k) # ChGet(pre, k) =>
                       \E i \in passed : /\ cs[i].fn \in {"UcanInitCanEx2", "UcanDeinitCanEx"}
                                         /\ cs[i].args[2] = k]_vars

C27_Witness ==
    /\ last.op = "shutdown"
    /\ last.args = <<CHANNEL_ALL, TRUE>>
    /\ last.raised # "none"
    /\ Len(calls) = 2
    /\ calls[1].fn = "UcanDeinitCanEx" /\ calls[1].ret = 0
    /\ calls[2].fn = "UcanDeinitCanEx" /\ calls[2].ret = 6
    /\ ~sessions[1].ch_is_initialized[CHANNEL_CH0]
    /\ sessions[1].ch_is_initialized[CHANNEL_CH1]
    /\ sessions[1].hw_is_initialized
    /\ sessions[1].handle # INVALID_HANDLE

\* All identifiers of a width: 0 .. 0x7FF or 0 .. 0x1FFFFFFF.
LastId(is_extended) == 0..(IdBits(is_extended) - 1)

\* C29: the full-range filter is the accept-all filter: with default rtr
\* flags, from_id = 0 and to_id = 0x7FF (11-bit) or 0x1FFFFFFF (29-bit),
\* calculate_amr yields AMR_ALL (0xFFFFFFFF) and calculate_acr yields ACR_ALL
\* (0); for all identifiers within those ranges both results lie in
\* 0..0xFFFFFFFF.
C29_FullRangeAcceptsAll ==
    verdict.of = "filter" =>
        /\ (/\ ~input.rtr_only /\ input.rtr_too
            /\ input.from_id = {} /\ input.to_id = LastId(input.is_extended)) =>
              /\ verdict.amr = 0..31
              /\ verdict.acr = {}
        /\ (input.from_id \subseteq LastId(input.is_extended)
            /\ input.to_id \subseteq LastId(input.is_extended)) =>
              /\ verdict.amr \subseteq 0..31
              /\ verdict.acr \subseteq 0..31

C29_Witness ==
    /\ verdict.of = "filter"
    /\ input.is_extended
    /\ ~input.rtr_only /\ input.rtr_too
    /\ input.from_id = Word(0)
    /\ input.to_id = 0..28
    /\ verdict.amr = AMR_ALL
    /\ verdict.acr = ACR_ALL

\* C30: an InitCanParam built with rx_buffer_entries = rx and
\* tx_buffer_entries = tx (rx, tx in 0..65535) reads back rx from its
\* rx_buffer_entries property and tx from its tx_buffer_entries property, and
\* assigning to one of the two properties changes only the corresponding field.
C30_BufferPropertiesRoundTrip ==
    verdict.of = "init_param" =>
        /\ verdict.rx_buffer_entries = input.rx_buffer_entries
        /\ verdict.tx_buffer_entries = input.tx_buffer_entries
        /\ verdict.assigned =
              [verdict.built EXCEPT
                  ![IF input.assign = "rx_buffer_entries"
                    THEN "m_wNrOfRxBufferEntries" ELSE "m_wNrOfTxBufferEntries"] = input.value]

====
